---- MODULE Spec2Model ----
(***************************************************************************)
(* The batch content-prioritization engine of prioritization-spec.md and   *)
(* the reading dashboard that consumes it.                                 *)
(*                                                                         *)
(* A batch run reads the stored article records, resolves the analyzable   *)
(* text of each article (fetched page, stored content, stored summary),    *)
(* scores it with six extractors, aggregates the six scores into one       *)
(* priority score, ranks the batch and answers GET /prioritization/sample. *)
(* The dashboard's fetchPrioritizedArticles receives that answer.          *)
(*                                                                         *)
(* Numbers: a component score s in [1,10] is kept in tenths (10..100), a   *)
(* weight in hundredths, a priority score in thousandths (10000..100000),  *)
(* so that the weighted sum is exact.                                      *)
(***************************************************************************)
EXTENDS Integers, Sequences, FiniteSets, TLC

\* ------------------------------------------------------------------ bounds

\* Largest number of article records in one batch.
MaxBatch == 2

\* Largest top-N sample size a request may ask for.
MaxTopK == 2

\* The day on which the batch runs ("now"), in days since the oldest record.
MaxDay == 400

\* The aggregator's inputs are sampled every SampleStep tenths of a point.
SampleStep == 45

\* The browser's time is followed for this many steps of TickMs.
MaxTicks == 5

\* The backend holds this many articles.
MaxArticles == 2

\* At most this many archive and shortlist requests are under way at a time.
MaxPending == 1

\* A response of /podcasts/latest holds at most this many podcasts.
MaxPodcasts == 2

\* ArchiveFastTrack is followed for this many load requests.
MaxLoads == 2

\* ------------------------------------------------------- program constants

\* One score point, in tenths.
ScoreScale == 10

\* "Scale: 1-10 normalized score".
MinScore == 1 * ScoreScale

MaxScore == 10 * ScoreScale

\* Fixed weights of the priority score, in hundredths.
WQuality == 25

WInfoDensity == 15

WReadability == 15

WRelevance == 20

WFreshness == 10

WEngagement == 15

\* "* 10  # Scale to 0-100".
PriorityScale == 10

\* Freshness: half-life of the decay, in days, and the evergreen minimum.
HalfLifeDays == 30

EvergreenFloor == 3 * ScoreScale

\* The largest configurable limit on page fetches running at the same time.
ConcurrencyLimit == 2

\* metadata.min_score / max_score of a batch in which no article was scored.
UndefinedScore == 0

\* ToastNotification: the time a toast stays when no duration is given, in ms.
DefaultDuration == 3000

\* ArchiveFastTrack: the minimum age selected at first, in days.
DefaultMinAge == 1095

Metrics ==
    {"quality", "info_density", "readability", "relevance", "freshness", "engagement"}

\* --------------------------------------------------------------- helpers

Max(a, b) == IF a >= b THEN a ELSE b

Min(a, b) == IF a <= b THEN a ELSE b

RECURSIVE Pow2(_)
Pow2(n) == IF n <= 0 THEN 1 ELSE 2 * Pow2(n - 1)

RECURSIVE Count(_, _)
\* Number of tokens of `text` that are in the set `toks`.
Count(text, toks) ==
    IF text = <<>> THEN 0
    ELSE (IF Head(text) \in toks THEN 1 ELSE 0) + Count(Tail(text), toks)

\* A text is a sequence of tokens: "sp" whitespace, "w" a plain word, "n" a
\* numeric or statistical token, "c" a citation, "k" an interest-topic keyword,
\* "q" a question.
WordTokens == {"w", "n", "c", "k", "q"}

\* Empty after whitespace trim.
IsBlank(text) == Count(text, WordTokens) = 0

\* An optional string field: <<>> is absent (None), <<t>> holds the text t.
HasText(opt) == opt # <<>> /\ ~IsBlank(opt[1])

\* ------------------------------------------------------- article records

Absent == <<>>

Some(t) == <<t>>

Rich == <<"k", "c", "n", "q">>

Plain == <<"w", "w", "w", "w", "w">>

Summ == <<"k", "w">>

Blank == <<"sp">>

AllFaults == Metrics \cup {"resolver"}

\* An ArticleRecord: what fetching source_url gives (status and extracted body),
\* the stored content and summary, the dates (in days), the title, and which
\* steps of its pipeline raise ("resolver" or a metric's extractor).
Rec(status, body, content, summary, published, saved, title, faults) ==
    [fetch |-> [status |-> status, body |-> body], content |-> content,
     summary |-> summary, published_date |-> published, saved_at |-> saved,
     title |-> title, faults |-> faults]

\* The records a batch is drawn from: a fresh article, the same article older,
\* the same with no published_date, every way a fetch can fail with each stored
\* fallback, no content at all, and the pipeline faults.
RecordPool ==
    { Rec("ok", Rich, Some(Plain), Some(Summ), Some(MaxDay), MaxDay, "q", {}),
      Rec("ok", Rich, Some(Plain), Some(Summ), Some(MaxDay - HalfLifeDays), MaxDay, "q", {}),
      Rec("ok", Rich, Some(Plain), Some(Summ), Absent, 0, "q", {}),
      Rec("network_error", <<>>, Some(<<>>), Some(Summ), Some(MaxDay), MaxDay, "w", {}),
      Rec("non2xx", Rich, Some(Plain), Some(Summ), Some(MaxDay + 1), MaxDay, "w", {}),
      Rec("ok", Blank, Some(Blank), Absent, Some(0), MaxDay, "q", {}),
      Rec("timeout", <<>>, Absent, Some(Summ), Absent, MaxDay, "w", {"quality"}),
      Rec("parse_error", Rich, Some(Rich), Absent, Some(MaxDay), MaxDay, "q", {}),
      Rec("ok", Rich, Some(Plain), Some(Summ), Some(MaxDay), MaxDay, "q", AllFaults),
      Rec("ok", Rich, Some(Plain), Some(Summ), Some(MaxDay), MaxDay, "q", {"resolver"}) }

RECURSIVE SeqsUpTo(_, _)
\* The sequences over S of length 0..n.
SeqsUpTo(S, n) ==
    IF n = 0 THEN {<<>>}
    ELSE LET shorter == SeqsUpTo(S, n - 1)
         IN shorter \cup {Append(q, x) : q \in shorter, x \in S}

Batches == SeqsUpTo(RecordPool, MaxBatch) \ {<<>>}

\* ------------------------------------------------------ Content Resolver

\* Step 1: fetch source_url and extract the main text. A network error, a
\* timeout, a non-2xx response and a parse error give no text.
fetchText(record) ==
    IF record.fetch.status = "ok" THEN record.fetch.body ELSE <<>>

\* The resolver with the stored summary tried before the stored content.
resolveSummaryFirst(record) ==
    LET fetched == fetchText(record)
    IN IF ~IsBlank(fetched) THEN [text |-> fetched, provenance |-> "fetched"]
       ELSE IF HasText(record.summary)
            THEN [text |-> record.summary[1], provenance |-> "summary"]
       ELSE IF HasText(record.content)
            THEN [text |-> record.content[1], provenance |-> "stored_content"]
       ELSE [text |-> <<>>, provenance |-> "none"]

\* resolve(record): the first step that yields non-empty text.
resolve(record) ==
    LET fetched == fetchText(record)
    IN IF ~IsBlank(fetched) THEN [text |-> fetched, provenance |-> "fetched"]
       ELSE IF HasText(record.content)
            THEN [text |-> record.content[1], provenance |-> "stored_content"]
       ELSE IF HasText(record.summary)
            THEN [text |-> record.summary[1], provenance |-> "summary"]
       ELSE [text |-> <<>>, provenance |-> "none"]

NoContent == [text |-> <<>>, provenance |-> "none"]

\* ----------------------------------------------------- Metric Extractors

Clamp(x) == Max(MinScore, Min(MaxScore, x))

\* Citations and numeric or statistical tokens.
Quality(text, record) ==
    IF IsBlank(text) THEN MinScore
    ELSE Clamp(MinScore + 5 * ScoreScale * Count(text, {"c"})
                        + 4 * ScoreScale * Count(text, {"n"}))

\* Lexical diversity: distinct word tokens over all word tokens.
InfoDensity(text, record) ==
    IF IsBlank(text) THEN MinScore
    ELSE Clamp((MaxScore * Cardinality({text[i] : i \in DOMAIN text} \cap WordTokens))
                   \div Count(text, WordTokens))

\* Complexity class by the number of plain filler words, then to the scale.
Readability(text, record) ==
    IF IsBlank(text) THEN MinScore
    ELSE Clamp(MaxScore - 2 * ScoreScale * Count(text, {"w"}))

\* Interest-topic keyword hits.
TopicRelevance(text, record) ==
    IF IsBlank(text) THEN MinScore
    ELSE Clamp(MinScore + 9 * ScoreScale * Count(text, {"k"}))

\* age = now - (published_date if present, else saved_at), in days.
AgeDays(record, now) ==
    LET from == IF record.published_date # Absent THEN record.published_date[1]
                ELSE record.saved_at
    IN Max(0, now - from)

\* Exponential decay of the score range with the age: halved after every
\* HalfLifeDays, interpolated linearly within a half-life.
Decay(age) ==
    LET n == age \div HalfLifeDays
        hi == (MaxScore - MinScore) \div Pow2(n)
        lo == (MaxScore - MinScore) \div Pow2(n + 1)
    IN hi - ((hi - lo) * (age % HalfLifeDays)) \div HalfLifeDays

\* The freshness score computed from the age alone, whatever the text.
FreshnessAgeOnly(text, record, now) ==
    Clamp(Max(EvergreenFloor, MinScore + Decay(AgeDays(record, now))))

\* The freshness score without the evergreen floor.
FreshnessNoFloor(text, record, now) ==
    IF IsBlank(text) THEN MinScore
    ELSE Clamp(MinScore + Decay(AgeDays(record, now)))

\* Decays with the age, never below the evergreen floor.
Freshness(text, record, now) ==
    IF IsBlank(text) THEN MinScore
    ELSE Clamp(Max(EvergreenFloor, MinScore + Decay(AgeDays(record, now))))

\* Title heuristics and questions in the text.
Engagement(text, record) ==
    IF IsBlank(text) THEN MinScore
    ELSE Clamp(MinScore + (IF record.title = "q" THEN 4 * ScoreScale ELSE 0)
                        + 5 * ScoreScale * Count(text, {"q"}))

Extract(metric, text, record, now) ==
    CASE metric = "quality" -> Quality(text, record)
      [] metric = "info_density" -> InfoDensity(text, record)
      [] metric = "readability" -> Readability(text, record)
      [] metric = "relevance" -> TopicRelevance(text, record)
      [] metric = "freshness" -> Freshness(text, record, now)
      [] metric = "engagement" -> Engagement(text, record)

\* An extractor that raises is replaced by the minimum score for its metric.
ComponentScoresOf(text, record, now) ==
    [m \in Metrics |->
        IF m \in record.faults THEN MinScore ELSE Extract(m, text, record, now)]

\* ---------------------------------------------------- Priority Aggregator

\* The aggregator with the weights of quality and relevance exchanged.
aggregateSwapped(scores) ==
    ( scores["quality"] * WRelevance
    + scores["info_density"] * WInfoDensity
    + scores["readability"] * WReadability
    + scores["relevance"] * WQuality
    + scores["freshness"] * WFreshness
    + scores["engagement"] * WEngagement ) * PriorityScale

\* The aggregator without the final scaling by 10.
aggregateUnscaled(scores) ==
    scores["quality"] * WQuality
    + scores["info_density"] * WInfoDensity
    + scores["readability"] * WReadability
    + scores["relevance"] * WRelevance
    + scores["freshness"] * WFreshness
    + scores["engagement"] * WEngagement

\* priority_score = (quality * 0.25 + ... + engagement * 0.15) * 10
aggregate(scores) ==
    ( scores["quality"] * WQuality
    + scores["info_density"] * WInfoDensity
    + scores["readability"] * WReadability
    + scores["relevance"] * WRelevance
    + scores["freshness"] * WFreshness
    + scores["engagement"] * WEngagement ) * PriorityScale

\* ------------------------------------------------------ Ranking Reporter

\* The comparison by priority score alone: equal scores stay in the order in
\* which the sort meets them.
BeforeScoreOnly(a, b) == a.priority_score > b.priority_score

\* Descending by priority score; equal scores in the order of the input records.
Before(a, b) ==
    \/ a.priority_score > b.priority_score
    \/ a.priority_score = b.priority_score /\ a.id < b.id

RECURSIVE Insert(_, _)
Insert(e, sorted) ==
    IF sorted = <<>> THEN <<e>>
    ELSE IF Before(e, Head(sorted)) THEN <<e>> \o sorted
    ELSE <<Head(sorted)>> \o Insert(e, Tail(sorted))

RECURSIVE SortDesc(_)
SortDesc(entries) ==
    IF entries = <<>> THEN <<>>
    ELSE Insert(Head(entries), SortDesc(Tail(entries)))

Take(entries, k) == SubSeq(entries, 1, Min(k, Len(entries)))

ScoresIn(entries) == {entries[i].priority_score : i \in DOMAIN entries}

MinScoreOf(entries) ==
    IF entries = <<>> THEN UndefinedScore
    ELSE CHOOSE s \in ScoresIn(entries) : \A t \in ScoresIn(entries) : s <= t

MaxScoreOf(entries) ==
    IF entries = <<>> THEN UndefinedScore
    ELSE CHOOSE s \in ScoresIn(entries) : \A t \in ScoresIn(entries) : s >= t

\* The reporter counting only the articles that were scored.
rankCountScored(collected, total, k) ==
    LET top == Take(SortDesc(collected), k)
    IN [articles |-> top,
        metadata |-> [total_processed |-> Len(collected),
                      min_score |-> MinScoreOf(collected),
                      max_score |-> MaxScoreOf(collected),
                      returned_count |-> Len(top)]]

\* The reporter with the score range taken over the returned slice only.
rankSliceRange(collected, total, k) ==
    LET top == Take(SortDesc(collected), k)
    IN [articles |-> top,
        metadata |-> [total_processed |-> total,
                      min_score |-> MinScoreOf(top),
                      max_score |-> MaxScoreOf(top),
                      returned_count |-> Len(top)]]

\* rank: `collected` are the scored articles in the order their tasks finished,
\* `total` the number of input records, `k` the sample size asked for.
rank(collected, total, k) ==
    LET top == Take(SortDesc(collected), k)
    IN [articles |-> top,
        metadata |-> [total_processed |-> total,
                      min_score |-> MinScoreOf(collected),
                      max_score |-> MaxScoreOf(collected),
                      returned_count |-> Len(top)]]

NoRanking ==
    [articles |-> <<>>,
     metadata |-> [total_processed |-> 0, min_score |-> UndefinedScore,
                   max_score |-> UndefinedScore, returned_count |-> 0]]

\* ------------------------------------------- GET /prioritization/sample

\* The API layer's answer: the ranked payload, or an error response.
respond(outcome_, result_) ==
    IF outcome_ = "ranked" THEN [ok |-> TRUE, status |-> 200, body |-> result_]
    ELSE [ok |-> FALSE, status |-> 500, body |-> NoRanking]

\* The fetch wrapper without the check of response.ok.
fetchPrioritizedUnchecked(response) ==
    [state |-> "data", status |-> response.status, data |-> response.body]

\* The dashboard's fetch wrapper: throws on a response that is not ok, and
\* returns the parsed body as it is otherwise.
fetchPrioritizedArticles(response) ==
    IF ~response.ok
    THEN [state |-> "error", status |-> response.status, data |-> NoRanking]
    ELSE [state |-> "data", status |-> response.status, data |-> response.body]

\* ------------------------------------------------------------ the state

VARIABLES
    records,        \* the stored article records of the batch, in input order
    readable,       \* whether the input record set can be read
    topK,           \* the sample size N asked for
    now,            \* the batch's "now", in days
    concurrency,    \* the configured limit on simultaneous fetches
    loaded,         \* the input record set has been read
    pc,             \* per article: unread, pending, fetching, resolved, scored, failed
    resolved,       \* per article: its ResolvedContent and whether the resolver raised
    collector,      \* the scored articles, in the order their tasks finished
    failures,       \* the number of articles whose scoring failed irrecoverably
    outcome,        \* running, ranked, error
    result,         \* the RankingResult
    client,         \* what fetchPrioritizedArticles gave the dashboard
    probePc,        \* the aggregator on its own: input, done
    probeScores,    \* its ComponentScores input
    probePriority,  \* its PriorityScore
    message,        \* ToastNotification: the message prop
    duration,       \* ToastNotification: the duration prop in ms, 0 when unset
    visible,        \* ToastNotification: the toast is on screen
    timers,         \* ToastNotification: the deadlines of the pending timeouts
    clock,          \* the browser's time in ms
    articles,       \* dashboard component: the listed articles
    metadata,       \* dashboard component: the metadata of the last response
    loading,        \* dashboard component: a load is under way
    error,          \* dashboard component: the load error shown, or Null
    showToast,      \* dashboard component: the toast is mounted
    toastMessage,   \* dashboard component: the message bound to the toast
    toastType,      \* dashboard component: success or error
    archived,       \* backend: the ids of the archived articles
    shortlisted,    \* backend: the ids of the shortlisted articles
    loadReq,        \* the load request: idle, sent, or its response
    archiveReq,     \* per article, its archive request: idle, sent, or its response
    shortlistReq,   \* per article, its shortlist request: idle, sent, or its response
    apiCall,        \* api: the function called
    net,            \* api: what fetch and response.json() give the call
    settled,        \* api: the promise the call returned
    minAgeDays,     \* ArchiveFastTrack: the selected minimum age
    archivedArticleIds, \* ArchiveFastTrack: the ids archived from this view
    loads,          \* ArchiveFastTrack: its load requests, each idle, sent, answered or done
    bulk            \* ArchiveFastTrack: the run of handleArchiveAll

engineVars ==
    <<records, readable, topK, now, concurrency, loaded, pc, resolved, collector, failures,
      outcome, result, client>>

probeVars == <<probePc, probeScores, probePriority>>

toastVars == <<message, duration, visible, timers, clock>>

dashVars ==
    <<articles, metadata, loading, error, showToast, toastMessage, toastType,
      archived, shortlisted, loadReq, archiveReq, shortlistReq>>

apiVars == <<apiCall, net, settled>>

fastVars == <<minAgeDays, archivedArticleIds, loads, bulk>>

uiVars == <<toastVars, dashVars, apiVars, fastVars>>

vars == <<engineVars, probeVars, uiVars>>

\* No toast is mounted.
ToastIdle ==
    /\ message = ""
    /\ duration = 0
    /\ visible = FALSE
    /\ timers = {}
    /\ clock = 0

ArticleIds == 1..MaxArticles

Null == "null"

NoMetadata == [returned_count |-> 0]

NoData == [articles |-> <<>>, metadata |-> NoMetadata]

\* No dashboard component is mounted and no request is under way.
DashIdle ==
    /\ articles = <<>>
    /\ metadata = NoMetadata
    /\ loading = FALSE
    /\ error = Null
    /\ showToast = FALSE
    /\ toastMessage = ""
    /\ toastType = "success"
    /\ archived = {}
    /\ shortlisted = {}
    /\ loadReq = [state |-> "idle", data |-> NoData]
    /\ archiveReq = [a \in ArticleIds |-> "idle"]
    /\ shortlistReq = [a \in ArticleIds |-> "idle"]

NoError == [name |-> "", message |-> <<>>]

NoResponse ==
    [kind |-> "none", status |-> 0, parses |-> FALSE, body |-> <<>>, error |-> NoError]

PendingPromise == [state |-> "pending", value |-> <<>>]

\* No api function has been called.
ApiIdle ==
    /\ apiCall = "none"
    /\ net = NoResponse
    /\ settled = PendingPromise

LoadSlots == 1..MaxLoads

NoLoad == [state |-> "idle", param |-> 0, data |-> NoData]

NoBulk ==
    [pc |-> "idle", list |-> <<>>, index |-> 1, successCount |-> 0,
     failCount |-> 0, issued |-> <<>>, req |-> "none"]

\* No ArchiveFastTrack component is mounted.
FastIdle ==
    /\ minAgeDays = 0
    /\ archivedArticleIds = {}
    /\ loads = [k \in LoadSlots |-> NoLoad]
    /\ bulk = NoBulk

UiIdle == ToastIdle /\ DashIdle /\ ApiIdle /\ FastIdle

Articles == DOMAIN records

Unresolved == [text |-> <<>>, provenance |-> "none", raised |-> FALSE]

ClientPending == [state |-> "pending", status |-> 0, data |-> NoRanking]

\* ------------------------------------------------------ the batch engine

EngineInit ==
    /\ records \in Batches
    /\ readable \in BOOLEAN
    /\ topK \in 1..MaxTopK
    /\ now = MaxDay
    /\ concurrency \in 1..ConcurrencyLimit
    /\ loaded = FALSE
    /\ pc = [i \in DOMAIN records |-> "unread"]
    /\ resolved = [i \in DOMAIN records |-> Unresolved]
    /\ collector = <<>>
    /\ failures = 0
    /\ outcome = "running"
    /\ result = NoRanking
    /\ client = ClientPending

\* Read the input record set; a set that cannot be read fails the batch.
ReadInput ==
    /\ outcome = "running"
    /\ ~loaded
    /\ \/ /\ readable
          /\ loaded' = TRUE
          /\ pc' = [i \in Articles |-> "pending"]
          /\ UNCHANGED outcome
       \/ /\ ~readable
          /\ outcome' = "error"
          /\ UNCHANGED <<loaded, pc>>
    /\ UNCHANGED <<records, readable, topK, now, concurrency,
                   resolved, collector, failures,
                   result, client, probeVars, uiVars>>

\* A worker takes an article and starts fetching its source_url.
StartFetch(i) ==
    /\ loaded
    /\ pc[i] = "pending"
    /\ Cardinality({j \in Articles : pc[j] = "fetching"}) < concurrency
    /\ pc' = [pc EXCEPT ![i] = "fetching"]
    /\ UNCHANGED <<records, readable, topK, now, concurrency,
                   loaded, resolved, collector,
                   failures, outcome, result, client, probeVars, uiVars>>

\* Resolution with no per-fetch timeout: the fetch of a source that never
\* responds is waited for without end.
ResolveNoTimeout(i) ==
    /\ pc[i] = "fetching"
    /\ records[i].fetch.status # "timeout"
    /\ resolved' =
         [resolved EXCEPT ![i] =
            IF "resolver" \in records[i].faults
            THEN [text |-> <<>>, provenance |-> "none", raised |-> TRUE]
            ELSE LET rc == resolve(records[i])
                 IN [text |-> rc.text, provenance |-> rc.provenance, raised |-> FALSE]]
    /\ pc' = [pc EXCEPT ![i] = "resolved"]
    /\ UNCHANGED <<records, readable, topK, now, concurrency,
                   loaded, collector, failures,
                   outcome, result, client, probeVars, uiVars>>

\* The fetch returns, fails or times out, and the article's content is resolved.
Resolve(i) ==
    /\ pc[i] = "fetching"
    /\ resolved' =
         [resolved EXCEPT ![i] =
            IF "resolver" \in records[i].faults
            THEN [text |-> <<>>, provenance |-> "none", raised |-> TRUE]
            ELSE LET rc == resolve(records[i])
                 IN [text |-> rc.text, provenance |-> rc.provenance, raised |-> FALSE]]
    /\ pc' = [pc EXCEPT ![i] = "resolved"]
    /\ UNCHANGED <<records, readable, topK, now, concurrency,
                   loaded, collector, failures,
                   outcome, result, client, probeVars, uiVars>>

\* The resolver and every extractor raised: nothing of the article is left.
WholeArticleFailure(i) ==
    resolved[i].raised /\ Metrics \subseteq records[i].faults

\* Scoring that reads the clock when the article's task runs, a day later for
\* every article already collected, instead of the batch's "now".
ScoredEntryOwnClock(i) ==
    LET scores == ComponentScoresOf(resolved[i].text, records[i], now + Len(collector))
    IN [id |-> i, component_scores |-> scores, priority_score |-> aggregate(scores),
        provenance |-> resolved[i].provenance]

ScoredEntry(i) ==
    LET scores == ComponentScoresOf(resolved[i].text, records[i], now)
    IN [id |-> i, component_scores |-> scores, priority_score |-> aggregate(scores),
        provenance |-> resolved[i].provenance]

\* The six extractors and the aggregator run on the resolved content; the
\* scored article is handed to the collector.
ScoreArticle(i) ==
    /\ pc[i] = "resolved"
    /\ \/ /\ WholeArticleFailure(i)
          /\ pc' = [pc EXCEPT ![i] = "failed"]
          /\ failures' = failures + 1
          /\ UNCHANGED collector
       \/ /\ ~WholeArticleFailure(i)
          /\ pc' = [pc EXCEPT ![i] = "scored"]
          /\ collector' = Append(collector, ScoredEntry(i))
          /\ UNCHANGED failures
    /\ UNCHANGED <<records, readable, topK, now, concurrency,
                   loaded, resolved, outcome,
                   result, client, probeVars, uiVars>>

\* Every article is scored or failed: sort, attach the metadata, cut to top-N.
Rank ==
    /\ outcome = "running"
    /\ loaded
    /\ \A i \in Articles : pc[i] \in {"scored", "failed"}
    /\ result' = rank(collector, Len(records), topK)
    /\ outcome' = "ranked"
    /\ UNCHANGED <<records, readable, topK, now, concurrency,
                   loaded, pc, resolved, collector,
                   failures, client, probeVars, uiVars>>

\* The dashboard's request is answered.
FetchPrioritized ==
    /\ outcome # "running"
    /\ client.state = "pending"
    /\ client' = fetchPrioritizedArticles(respond(outcome, result))
    /\ UNCHANGED <<records, readable, topK, now, concurrency,
                   loaded, pc, resolved, collector,
                   failures, outcome, result, probeVars, uiVars>>

ProbeIdle ==
    /\ probePc = "input"
    /\ probeScores = [m \in Metrics |-> MinScore]
    /\ probePriority = 0

EngineNext ==
    \/ ReadInput
    \/ \E i \in Articles : StartFetch(i)
    \/ \E i \in Articles : Resolve(i)
    \/ \E i \in Articles : ScoreArticle(i)
    \/ Rank
    \/ FetchPrioritized

EngineStart == EngineInit /\ ProbeIdle /\ UiIdle

EngineSpec == EngineStart /\ [][EngineNext]_vars

\* The worker pool keeps running and the fetch timers fire: an enabled step
\* of the batch is eventually taken.
EngineLiveSpec == EngineStart /\ [][EngineNext]_vars /\ WF_vars(EngineNext)

\* ------------------------------------------------ the aggregator on its own

\* ComponentScores inputs: both ends of the scale, their neighbours, and the
\* points in between.
ScoreSamples ==
    {s \in MinScore..MaxScore : (s - MinScore) % SampleStep = 0}
        \cup {MinScore, MinScore + 1, MaxScore - 1, MaxScore}

ProbeInit ==
    /\ probePc = "input"
    /\ probeScores \in [Metrics -> ScoreSamples]
    /\ probePriority = 0

EngineIdle ==
    /\ records = <<>>
    /\ readable = FALSE
    /\ topK = 1
    /\ now = MaxDay
    /\ concurrency = 1
    /\ loaded = FALSE
    /\ pc = <<>>
    /\ resolved = <<>>
    /\ collector = <<>>
    /\ failures = 0
    /\ outcome = "idle"
    /\ result = NoRanking
    /\ client = ClientPending

\* aggregate(ComponentScores) -> PriorityScore
Aggregate ==
    /\ probePc = "input"
    /\ probePriority' = aggregate(probeScores)
    /\ probePc' = "done"
    /\ UNCHANGED <<probeScores, engineVars, uiVars>>

AggStart == ProbeInit /\ EngineIdle /\ UiIdle

AggNext == Aggregate

AggSpec == AggStart /\ [][AggNext]_vars

\* ------------------------------------------------------ ToastNotification

\* The step in which time passes, in ms.
TickMs == 1000

\* setTimeout(..., props.duration || 3000)
Timeout(d) == IF d = 0 THEN DefaultDuration ELSE d

\* The watcher with no test of the message.
watchMessageUnguarded(msg, dur, vis, tms, clk) ==
    [visible |-> TRUE, timers |-> tms \cup {clk + Timeout(dur)}]

\* The watcher of props.message: a non-empty message shows the toast and
\* starts a timeout that hides it; no pending timeout is cleared.
watchMessage(msg, dur, vis, tms, clk) ==
    IF msg # ""
    THEN [visible |-> TRUE, timers |-> tms \cup {clk + Timeout(dur)}]
    ELSE [visible |-> vis, timers |-> tms]

Messages == {"", "saved", "failed"}

Durations == {0, TickMs, 2 * TickMs}

MaxClock == MaxTicks * TickMs

\* The times the clock shows.
Instants == {k * TickMs : k \in 0..MaxTicks}

\* The component is created with its props; the watcher runs at once
\* (immediate: true).
ToastInit ==
    /\ message \in Messages
    /\ duration \in Durations
    /\ clock = 0
    /\ LET w == watchMessage(message, duration, FALSE, {}, 0)
       IN /\ visible = w.visible
          /\ timers = w.timers

\* The parent binds another message; the watcher runs.
MessageChange(m) ==
    /\ m # message
    /\ clock + Timeout(duration) <= MaxClock
    /\ message' = m
    /\ LET w == watchMessage(m, duration, visible, timers, clock)
       IN /\ visible' = w.visible
          /\ timers' = w.timers
    /\ UNCHANGED <<duration, clock, engineVars, probeVars, apiVars, dashVars, fastVars>>

\* A timeout that is due runs its callback: visible.value = false.
TimerFires(t) ==
    /\ t \in timers
    /\ t <= clock
    /\ visible' = FALSE
    /\ timers' = timers \ {t}
    /\ UNCHANGED <<message, duration, clock,
                   engineVars, probeVars, apiVars, dashVars, fastVars>>

\* Time passes when no timeout is due.
Tick ==
    /\ \A t \in timers : t > clock
    /\ clock + TickMs <= MaxClock
    /\ clock' = clock + TickMs
    /\ UNCHANGED <<message, duration, visible, timers,
                   engineVars, probeVars, apiVars, dashVars, fastVars>>

ToastNext ==
    \/ \E m \in Messages : MessageChange(m)
    \/ \E t \in Instants : TimerFires(t)
    \/ Tick

ToastStart == ToastInit /\ EngineIdle /\ ProbeIdle /\ DashIdle /\ ApiIdle /\ FastIdle

\* Time passes and due timeouts run.
ToastSpec ==
    /\ ToastStart
    /\ [][ToastNext]_vars
    /\ WF_vars(Tick)
    /\ WF_vars(\E t \in Instants : TimerFires(t))

\* --------------------------------------------------- PrioritizedArticles

\* What a failed request rejects with: the Error thrown when !response.ok.
Failures == {"HTTP error! status: 500"}

\* The archive and shortlist requests under way.
Pending ==
    Cardinality({a \in ArticleIds : archiveReq[a] # "idle"})
        + Cardinality({a \in ArticleIds : shortlistReq[a] # "idle"})

Ids(list) == {list[i].id : i \in DOMAIN list}

\* The backend's ranked list: the articles that are not archived.
Ranked(arch, short) ==
    SelectSeq([i \in ArticleIds |-> [id |-> i, shortlisted |-> i \in short]],
              LAMBDA r : r.id \notin arch)

RankedResponse(arch, short) ==
    LET list == Ranked(arch, short)
    IN [articles |-> list, metadata |-> [returned_count |-> Len(list)]]

\* <ToastNotification v-if="showToast" :message="toastMessage"> after a
\* handler has run: the component is created when showToast turns true, and
\* its watcher runs when the bound message differs from the one it has.
renderToast(wasShown, msg) ==
    IF ~wasShown
    THEN LET w == watchMessage(msg, 0, FALSE, {}, clock)
         IN [message |-> msg, duration |-> 0,
             visible |-> w.visible, timers |-> w.timers]
    ELSE IF msg # message
    THEN LET w == watchMessage(msg, duration, visible, timers, clock)
         IN [message |-> msg, duration |-> duration,
             visible |-> w.visible, timers |-> w.timers]
    ELSE [message |-> message, duration |-> duration,
          visible |-> visible, timers |-> timers]

\* toastMessage.value = msg; toastType.value = type; showToast.value = true
Toast(msg, type) ==
    /\ toastMessage' = msg
    /\ toastType' = type
    /\ showToast' = TRUE
    /\ LET r == renderToast(showToast, msg)
       IN /\ message' = r.message
          /\ duration' = r.duration
          /\ visible' = r.visible
          /\ timers' = r.timers
    /\ UNCHANGED clock

\* A start of the load that leaves the error of the load before.
BeginLoadKeepError ==
    /\ loading' = TRUE
    /\ UNCHANGED error
    /\ loadReq' = [state |-> "sent", data |-> NoData]

\* loadPrioritizedArticles up to its await.
BeginLoad ==
    /\ loading' = TRUE
    /\ error' = Null
    /\ loadReq' = [state |-> "sent", data |-> NoData]

\* The component is mounted: onMounted calls loadPrioritizedArticles.
PrioInit ==
    /\ articles = <<>>
    /\ metadata = NoMetadata
    /\ loading = TRUE
    /\ error = Null
    /\ showToast = FALSE
    /\ toastMessage = ""
    /\ toastType = "success"
    /\ archived = {}
    /\ shortlisted = {}
    /\ loadReq = [state |-> "sent", data |-> NoData]
    /\ archiveReq = [a \in ArticleIds |-> "idle"]
    /\ shortlistReq = [a \in ArticleIds |-> "idle"]

\* The Refresh Rankings button, disabled while loading.
ClickReload ==
    /\ ~loading
    /\ BeginLoad
    /\ UNCHANGED <<articles, metadata, showToast, toastMessage, toastType,
                   archived, shortlisted, archiveReq, shortlistReq,
                   toastVars, engineVars, probeVars, apiVars, fastVars>>

\* The backend answers GET /prioritization/prioritized.
ServeLoad ==
    /\ loadReq.state = "sent"
    /\ \/ loadReq' = [state |-> "ok", data |-> RankedResponse(archived, shortlisted)]
       \/ \E f \in Failures : loadReq' = [state |-> f, data |-> NoData]
    /\ UNCHANGED <<articles, metadata, loading, error, showToast, toastMessage,
                   toastType, archived, shortlisted, archiveReq, shortlistReq,
                   toastVars, engineVars, probeVars, apiVars, fastVars>>

\* loadPrioritizedArticles after its await.
LoadDone ==
    /\ loadReq.state \notin {"idle", "sent"}
    /\ IF loadReq.state = "ok"
       THEN /\ articles' = loadReq.data.articles
            /\ metadata' = loadReq.data.metadata
            /\ Toast("Prioritized articles loaded successfully", toastType)
            /\ UNCHANGED error
       ELSE /\ error' = loadReq.state
            /\ Toast("Failed to load prioritized articles", "error")
            /\ UNCHANGED <<articles, metadata>>
    /\ loading' = FALSE
    /\ loadReq' = [state |-> "idle", data |-> NoData]
    /\ UNCHANGED <<archived, shortlisted, archiveReq, shortlistReq,
                   engineVars, probeVars, apiVars, fastVars>>

\* The article cards are rendered when nothing is loading and no error is shown.
CardShown(a) ==
    /\ ~loading
    /\ error = Null
    /\ a \in Ids(articles)

\* The Archive button of a card: handleArchive up to its await.
ClickArchive(a) ==
    /\ CardShown(a)
    /\ archiveReq[a] = "idle"
    /\ Pending < MaxPending
    /\ archiveReq' = [archiveReq EXCEPT ![a] = "sent"]
    /\ UNCHANGED <<articles, metadata, loading, error, showToast, toastMessage,
                   toastType, archived, shortlisted, loadReq, shortlistReq,
                   toastVars, engineVars, probeVars, apiVars, fastVars>>

\* The backend answers POST /reader/articles/{id}/archive.
ServeArchive(a) ==
    /\ archiveReq[a] = "sent"
    /\ \/ /\ archiveReq' = [archiveReq EXCEPT ![a] = "ok"]
          /\ archived' = archived \cup {a}
       \/ /\ \E f \in Failures : archiveReq' = [archiveReq EXCEPT ![a] = f]
          /\ UNCHANGED archived
    /\ UNCHANGED <<articles, metadata, loading, error, showToast, toastMessage,
                   toastType, shortlisted, loadReq, shortlistReq,
                   toastVars, engineVars, probeVars, apiVars, fastVars>>

\* handleArchive after its await.
ArchiveDone(a) ==
    /\ archiveReq[a] \notin {"idle", "sent"}
    /\ IF archiveReq[a] = "ok"
       THEN /\ articles' = SelectSeq(articles, LAMBDA r : r.id # a)
            /\ Toast("Article archived successfully", "success")
       ELSE /\ Toast(archiveReq[a], "error")
            /\ UNCHANGED articles
    /\ archiveReq' = [archiveReq EXCEPT ![a] = "idle"]
    /\ UNCHANGED <<metadata, loading, error, archived, shortlisted, loadReq,
                   shortlistReq, engineVars, probeVars, apiVars, fastVars>>

\* The Shortlist button of a card: handleShortlist up to its await.
ClickShortlist(a) ==
    /\ CardShown(a)
    /\ shortlistReq[a] = "idle"
    /\ Pending < MaxPending
    /\ shortlistReq' = [shortlistReq EXCEPT ![a] = "sent"]
    /\ UNCHANGED <<articles, metadata, loading, error, showToast, toastMessage,
                   toastType, archived, shortlisted, loadReq, archiveReq,
                   toastVars, engineVars, probeVars, apiVars, fastVars>>

\* The backend answers POST /reader/articles/{id}/shortlist.
ServeShortlist(a) ==
    /\ shortlistReq[a] = "sent"
    /\ \/ /\ shortlistReq' = [shortlistReq EXCEPT ![a] = "ok"]
          /\ shortlisted' = shortlisted \cup {a}
       \/ /\ \E f \in Failures : shortlistReq' = [shortlistReq EXCEPT ![a] = f]
          /\ UNCHANGED shortlisted
    /\ UNCHANGED <<articles, metadata, loading, error, showToast, toastMessage,
                   toastType, archived, loadReq, archiveReq,
                   toastVars, engineVars, probeVars, apiVars, fastVars>>

\* handleShortlist after its await.
ShortlistDone(a) ==
    /\ shortlistReq[a] \notin {"idle", "sent"}
    /\ IF shortlistReq[a] = "ok"
       THEN /\ articles' = [i \in DOMAIN articles |->
                              IF articles[i].id = a
                              THEN [articles[i] EXCEPT !.shortlisted = TRUE]
                              ELSE articles[i]]
            /\ Toast("Article shortlisted successfully", "success")
       ELSE /\ Toast(shortlistReq[a], "error")
            /\ UNCHANGED articles
    /\ shortlistReq' = [shortlistReq EXCEPT ![a] = "idle"]
    /\ UNCHANGED <<metadata, loading, error, archived, shortlisted, loadReq,
                   archiveReq, engineVars, probeVars, apiVars, fastVars>>

\* An action of the component has run to its end.
ActionCompletes ==
    \/ LoadDone
    \/ \E a \in ArticleIds : ArchiveDone(a)
    \/ \E a \in ArticleIds : ShortlistDone(a)

PrioNext ==
    \/ ClickReload
    \/ ServeLoad
    \/ LoadDone
    \/ \E a \in ArticleIds : ClickArchive(a)
    \/ \E a \in ArticleIds : ServeArchive(a)
    \/ \E a \in ArticleIds : ArchiveDone(a)
    \/ \E a \in ArticleIds : ClickShortlist(a)
    \/ \E a \in ArticleIds : ServeShortlist(a)
    \/ \E a \in ArticleIds : ShortlistDone(a)
    \/ \E t \in Instants : TimerFires(t)
    \/ Tick

PrioStart == PrioInit /\ ToastIdle /\ EngineIdle /\ ProbeIdle /\ ApiIdle /\ FastIdle

PrioSpec == PrioStart /\ [][PrioNext]_vars

\* ------------------------------------------------------- ArchiveFastTrack

\* The age-filter buttons: 1 Year, 2 Years, 3 Years, Any Age.
AgeFilters == {365, 730, 1095, 0}

\* The backend's articles differ in age by this many days.
AgeStep == 600

AgeOf(a) == a * AgeStep

\* The backend's archive candidates: the articles of the minimum age that
\* are not archived.
LowPriority(minAge, arch) ==
    SelectSeq([i \in ArticleIds |-> [id |-> i, age |-> AgeOf(i)]],
              LAMBDA r : r.age >= minAge /\ r.id \notin arch)

\* GET /prioritization/low-priority?min_age_days=<n>, the criterion echoed.
LowPriorityResponse(minAge, arch) ==
    LET list == LowPriority(minAge, arch)
    IN [articles |-> list,
        metadata |-> [returned_count |-> Len(list),
                      criteria |-> [min_age_days |-> minAge]]]

\* The confirm() dialog of handleArchiveAll is open: no handler runs.
Modal == bulk.pc = "confirming"

\* The component is mounted: onMounted calls loadLowPriorityArticles.
FastInit ==
    /\ articles = <<>>
    /\ metadata = NoMetadata
    /\ loading = TRUE
    /\ error = Null
    /\ showToast = FALSE
    /\ toastMessage = ""
    /\ toastType = "success"
    /\ archived = {}
    /\ shortlisted = {}
    /\ loadReq = [state |-> "idle", data |-> NoData]
    /\ archiveReq = [a \in ArticleIds |-> "idle"]
    /\ shortlistReq = [a \in ArticleIds |-> "idle"]
    /\ minAgeDays = DefaultMinAge
    /\ archivedArticleIds = {}
    /\ loads = [k \in LoadSlots |->
                  IF k = 1
                  THEN [state |-> "sent", param |-> DefaultMinAge, data |-> NoData]
                  ELSE NoLoad]
    /\ bulk = NoBulk

\* loadLowPriorityArticles up to its await: the request carries the value
\* minAgeDays has now.
StartLowPriorityLoad(minAge) ==
    /\ \E k \in LoadSlots :
          /\ loads[k].state = "idle"
          /\ \A j \in 1..(k - 1) : loads[j].state # "idle"
          /\ loads' = [loads EXCEPT ![k] =
                          [state |-> "sent", param |-> minAge, data |-> NoData]]
    /\ loading' = TRUE
    /\ error' = Null

\* The Refresh List button, disabled while loading.
ClickRefreshList ==
    /\ ~Modal
    /\ ~loading
    /\ StartLowPriorityLoad(minAgeDays)
    /\ UNCHANGED <<articles, metadata, showToast, toastMessage, toastType,
                   archived, shortlisted, loadReq, archiveReq, shortlistReq,
                   minAgeDays, archivedArticleIds, bulk,
                   toastVars, engineVars, probeVars, apiVars>>

\* An age-filter button; none of them is ever disabled.
updateMinAgeDays(days) ==
    /\ ~Modal
    /\ minAgeDays' = days
    /\ StartLowPriorityLoad(days)
    /\ UNCHANGED <<articles, metadata, showToast, toastMessage, toastType,
                   archived, shortlisted, loadReq, archiveReq, shortlistReq,
                   archivedArticleIds, bulk,
                   toastVars, engineVars, probeVars, apiVars>>

\* The backend answers a load request.
ServeLowPriority(k) ==
    /\ loads[k].state = "sent"
    /\ \/ loads' = [loads EXCEPT ![k].state = "ok",
                                 ![k].data = LowPriorityResponse(loads[k].param, archived)]
       \/ \E f \in Failures : loads' = [loads EXCEPT ![k].state = f]
    /\ UNCHANGED <<dashVars, minAgeDays, archivedArticleIds, bulk,
                   toastVars, engineVars, probeVars, apiVars>>

\* loadLowPriorityArticles after its await.
LowPriorityDone(k) ==
    /\ ~Modal
    /\ loads[k].state \notin {"idle", "sent", "done"}
    /\ IF loads[k].state = "ok"
       THEN /\ articles' = loads[k].data.articles
            /\ metadata' = loads[k].data.metadata
            /\ Toast("Archive candidates loaded successfully", "success")
            /\ UNCHANGED error
       ELSE /\ error' = loads[k].state
            /\ Toast("Failed to load archive candidates", "error")
            /\ UNCHANGED <<articles, metadata>>
    /\ loading' = FALSE
    /\ loads' = [loads EXCEPT ![k].state = "done", ![k].data = NoData]
    /\ UNCHANGED <<archived, shortlisted, loadReq, archiveReq, shortlistReq,
                   minAgeDays, archivedArticleIds, bulk,
                   engineVars, probeVars, apiVars>>

\* The Archive button of a card that is not archived: handleArchive up to
\* its await.
FastClickArchive(a) ==
    /\ ~Modal
    /\ CardShown(a)
    /\ a \notin archivedArticleIds
    /\ archiveReq[a] = "idle"
    /\ Pending < MaxPending
    /\ archiveReq' = [archiveReq EXCEPT ![a] = "sent"]
    /\ UNCHANGED <<articles, metadata, loading, error, showToast, toastMessage,
                   toastType, archived, shortlisted, loadReq, shortlistReq,
                   fastVars, toastVars, engineVars, probeVars, apiVars>>

\* handleArchive adding the id whatever the answer.
FastArchiveDoneAlways(a) ==
    /\ ~Modal
    /\ archiveReq[a] \notin {"idle", "sent"}
    /\ archivedArticleIds' = archivedArticleIds \cup {a}
    /\ IF archiveReq[a] = "ok"
       THEN Toast("Article archived successfully", "success")
       ELSE Toast(archiveReq[a], "error")
    /\ archiveReq' = [archiveReq EXCEPT ![a] = "idle"]
    /\ UNCHANGED <<articles, metadata, loading, error, archived, shortlisted,
                   loadReq, shortlistReq, minAgeDays, loads, bulk,
                   engineVars, probeVars, apiVars>>

\* handleArchive after its await.
FastArchiveDone(a) ==
    /\ ~Modal
    /\ archiveReq[a] \notin {"idle", "sent"}
    /\ IF archiveReq[a] = "ok"
       THEN /\ archivedArticleIds' = archivedArticleIds \cup {a}
            /\ Toast("Article archived successfully", "success")
       ELSE /\ Toast(archiveReq[a], "error")
            /\ UNCHANGED archivedArticleIds
    /\ archiveReq' = [archiveReq EXCEPT ![a] = "idle"]
    /\ UNCHANGED <<articles, metadata, loading, error, archived, shortlisted,
                   loadReq, shortlistReq, minAgeDays, loads, bulk,
                   engineVars, probeVars, apiVars>>

\* The index of the first article at or after i that is not in the set.
RECURSIVE NextUnarchived(_, _, _)
NextUnarchived(list, i, set) ==
    IF i > Len(list) THEN i
    ELSE IF list[i].id \notin set THEN i
    ELSE NextUnarchived(list, i + 1, set)

\* A loop that gives up at the first failure.
loopStepAbort(b, set) ==
    LET n == IF b.failCount > 0 THEN Len(b.list) + 1
             ELSE NextUnarchived(b.list, b.index, set)
    IN IF n > Len(b.list)
       THEN [b EXCEPT !.pc = "idle", !.index = n, !.req = "none"]
       ELSE [b EXCEPT !.pc = "awaiting", !.index = n, !.req = "sent",
                      !.issued = Append(@, b.list[n].id)]

\* The for loop of handleArchiveAll up to its next await: articles in
\* archivedArticleIds are passed over, the first other one is sent to
\* archiveArticle; past the last article the loop ends.
loopStep(b, set) ==
    LET n == NextUnarchived(b.list, b.index, set)
    IN IF n > Len(b.list)
       THEN [b EXCEPT !.pc = "idle", !.index = n, !.req = "none"]
       ELSE [b EXCEPT !.pc = "awaiting", !.index = n, !.req = "sent",
                      !.issued = Append(@, b.list[n].id)]

\* The toast at the end of handleArchiveAll.
BulkToast(b) ==
    IF b.failCount = 0
    THEN Toast("Successfully archived " \o ToString(b.successCount) \o " articles",
               "success")
    ELSE Toast("Archived " \o ToString(b.successCount)
                   \o " articles, failed to archive " \o ToString(b.failCount)
                   \o " articles",
               "error")

\* The Archive All button is enabled.
ArchiveAllEnabled ==
    /\ ~loading
    /\ Len(articles) > 0
    /\ \E i \in DOMAIN articles : articles[i].id \notin archivedArticleIds

\* The Archive All button: handleArchiveAll opens the confirm() dialog.
ClickArchiveAll ==
    /\ bulk.pc = "idle"
    /\ ArchiveAllEnabled
    /\ bulk' = [bulk EXCEPT !.pc = "confirming"]
    /\ UNCHANGED <<dashVars, minAgeDays, archivedArticleIds, loads,
                   toastVars, engineVars, probeVars, apiVars>>

\* The user declines: handleArchiveAll returns.
ConfirmDeclined ==
    /\ Modal
    /\ bulk' = [bulk EXCEPT !.pc = "idle"]
    /\ UNCHANGED <<dashVars, minAgeDays, archivedArticleIds, loads,
                   toastVars, engineVars, probeVars, apiVars>>

\* The user confirms: handleArchiveAll runs up to its first await.
ConfirmAccepted ==
    /\ Modal
    /\ LET b == loopStep([NoBulk EXCEPT !.list = articles], archivedArticleIds)
       IN /\ bulk' = b
          /\ IF b.pc = "idle"
             THEN /\ loading' = FALSE
                  /\ BulkToast(b)
             ELSE /\ loading' = TRUE
                  /\ UNCHANGED <<showToast, toastMessage, toastType, toastVars>>
    /\ UNCHANGED <<articles, metadata, error, archived, shortlisted, loadReq,
                   archiveReq, shortlistReq, minAgeDays, archivedArticleIds, loads,
                   engineVars, probeVars, apiVars>>

\* The backend answers the archive request of the loop.
ServeBulkArchive ==
    /\ bulk.req = "sent"
    /\ \/ /\ bulk' = [bulk EXCEPT !.req = "ok"]
          /\ archived' = archived \cup {bulk.list[bulk.index].id}
       \/ /\ \E f \in Failures : bulk' = [bulk EXCEPT !.req = f]
          /\ UNCHANGED archived
    /\ UNCHANGED <<articles, metadata, loading, error, showToast, toastMessage,
                   toastType, shortlisted, loadReq, archiveReq, shortlistReq,
                   minAgeDays, archivedArticleIds, loads,
                   toastVars, engineVars, probeVars, apiVars>>

\* handleArchiveAll after an await: the article is counted, and the loop
\* runs on to its next await or to its end.
BulkResponse ==
    /\ bulk.pc = "awaiting"
    /\ bulk.req \notin {"none", "sent"}
    /\ LET ok == bulk.req = "ok"
           set == IF ok
                  THEN archivedArticleIds \cup {bulk.list[bulk.index].id}
                  ELSE archivedArticleIds
           counted == [bulk EXCEPT !.successCount = IF ok THEN @ + 1 ELSE @,
                                   !.failCount = IF ok THEN @ ELSE @ + 1,
                                   !.index = @ + 1,
                                   !.req = "none"]
           b == loopStep(counted, set)
       IN /\ archivedArticleIds' = set
          /\ bulk' = b
          /\ IF b.pc = "idle"
             THEN /\ loading' = FALSE
                  /\ BulkToast(b)
             ELSE UNCHANGED <<loading, showToast, toastMessage, toastType, toastVars>>
    /\ UNCHANGED <<articles, metadata, error, archived, shortlisted, loadReq,
                   archiveReq, shortlistReq, minAgeDays, loads,
                   engineVars, probeVars, apiVars>>

\* A due timeout of the toast runs when no dialog is open.
FastTimerFires(t) == ~Modal /\ TimerFires(t)

FastNext ==
    \/ ClickRefreshList
    \/ \E d \in AgeFilters : updateMinAgeDays(d)
    \/ \E k \in LoadSlots : ServeLowPriority(k)
    \/ \E k \in LoadSlots : LowPriorityDone(k)
    \/ \E a \in ArticleIds : FastClickArchive(a)
    \/ \E a \in ArticleIds : ServeArchive(a)
    \/ \E a \in ArticleIds : FastArchiveDone(a)
    \/ ClickArchiveAll
    \/ ConfirmDeclined
    \/ ConfirmAccepted
    \/ ServeBulkArchive
    \/ BulkResponse
    \/ \E t \in Instants : FastTimerFires(t)
    \/ Tick

FastStart == FastInit /\ ToastIdle /\ ApiIdle /\ EngineIdle /\ ProbeIdle

FastSpec == FastStart /\ [][FastNext]_vars

\* ------------------------------------------------------ the api functions

\* The HTTP statuses the backend answers with.
Statuses == {200, 201, 404, 500}

\* response.ok
ResponseOk(st) == st \in 200..299

Resolved(v) == [state |-> "resolved", value |-> v]

Rejected(e) == [state |-> "rejected", value |-> e]

\* new Error(`HTTP error! status: ${response.status}`)
HttpError(st) == [name |-> "Error", message |-> <<"HTTP error! status: ", st>>]

\* new Error('Failed to fetch stats')
StatsError == [name |-> "Error", message |-> <<"Failed to fetch stats">>]

\* What fetch rejects with when no response arrives.
NetworkErrors == {[name |-> "TypeError", message |-> <<"Failed to fetch">>]}

\* What response.json() rejects with when the body is not JSON.
JsonError == [name |-> "SyntaxError", message |-> <<"Unexpected token">>]

\* What fetch and response.json() can give a call: a response with a status
\* and a body that parses or does not, or no response.
NetCases(bodies, none) ==
    [kind : {"response"}, status : Statuses, parses : BOOLEAN,
     body : bodies, error : {NoError}]
        \cup [kind : {"rejects"}, status : {0}, parses : {FALSE},
              body : {none}, error : NetworkErrors]

\* fetchArticles with no test of response.ok.
fetchArticlesUnchecked(r) ==
    IF r.kind = "rejects" THEN Rejected(r.error)
    ELSE IF ~r.parses THEN Rejected(JsonError)
    ELSE Resolved(r.body)

\* fetchArticles(): the catch block logs and throws the error again.
fetchArticles(r) ==
    IF r.kind = "rejects" THEN Rejected(r.error)
    ELSE IF ~ResponseOk(r.status) THEN Rejected(HttpError(r.status))
    ELSE IF ~r.parses THEN Rejected(JsonError)
    ELSE Resolved(r.body)

Article1 == [id |-> "1", title |-> "first"]

Article2 == [id |-> "2", title |-> "second"]

ArticleBodies ==
    {<<>>, <<Article1>>, <<Article2>>, <<Article1, Article2>>, <<Article2, Article1>>}

\* The episode mapping with two urls taken from each other's field.
toEpisodeSwapped(e) ==
    [episodeTitle |-> e.episode_title,
     audioUrl |-> e.overcast_url,
     overcastUrl |-> e.audio_url,
     overcastId |-> e.overcast_id,
     publishedDate |-> e.published_date,
     playProgress |-> e.play_progress,
     lastPlayedAt |-> e.last_played_at,
     summary |-> e.summary]

\* podcast.episodes.map((episode) => ({ ... }))
toEpisode(e) ==
    [episodeTitle |-> e.episode_title,
     audioUrl |-> e.audio_url,
     overcastUrl |-> e.overcast_url,
     overcastId |-> e.overcast_id,
     publishedDate |-> e.published_date,
     playProgress |-> e.play_progress,
     lastPlayedAt |-> e.last_played_at,
     summary |-> e.summary]

\* data.map((podcast) => ({ ... }))
toPodcast(p) ==
    [podcastTitle |-> p.podcast_title,
     artworkUrl |-> p.artwork_url,
     episodes |-> [j \in DOMAIN p.episodes |-> toEpisode(p.episodes[j])]]

\* fetchEpisodes()
fetchEpisodes(r) ==
    IF r.kind = "rejects" THEN Rejected(r.error)
    ELSE IF ~ResponseOk(r.status) THEN Rejected(HttpError(r.status))
    ELSE IF ~r.parses THEN Rejected(JsonError)
    ELSE Resolved([i \in DOMAIN r.body |-> toPodcast(r.body[i])])

Episode1 ==
    [episode_title |-> "episode one", audio_url |-> "one.mp3",
     overcast_url |-> "overcast.fm/1", overcast_id |-> "1",
     published_date |-> "2024-03-20", play_progress |-> "50",
     last_played_at |-> "2024-03-21", summary |-> "summary one"]

Episode2 ==
    [episode_title |-> "episode two", audio_url |-> "two.mp3",
     overcast_url |-> "overcast.fm/2", overcast_id |-> "2",
     published_date |-> "2024-03-22", play_progress |-> Null,
     last_played_at |-> "", summary |-> ""]

PodcastPool ==
    {[podcast_title |-> "podcast one", artwork_url |-> "one.jpg",
      episodes |-> <<Episode1, Episode2>>],
     [podcast_title |-> "podcast two", artwork_url |-> "two.jpg",
      episodes |-> <<Episode2>>],
     [podcast_title |-> "podcast three", artwork_url |-> "",
      episodes |-> <<>>]}

EpisodeBodies == UNION {[1..n -> PodcastPool] : n \in 0..MaxPodcasts}

\* fetchDailyCounts with the two daily series taken from each other.
fetchDailyCountsSwapped(r) ==
    IF r.kind = "rejects" THEN Rejected(r.error)
    ELSE IF ~ResponseOk(r.status) THEN Rejected(StatsError)
    ELSE IF ~r.parses THEN Rejected(JsonError)
    ELSE Resolved([readCounts |-> r.body.daily_counts.later,
                   savedCounts |-> r.body.daily_counts.archived,
                   totalCounts |-> r.body.total_counts])

\* fetchDailyCounts()
fetchDailyCounts(r) ==
    IF r.kind = "rejects" THEN Rejected(r.error)
    ELSE IF ~ResponseOk(r.status) THEN Rejected(StatsError)
    ELSE IF ~r.parses THEN Rejected(JsonError)
    ELSE Resolved([readCounts |-> r.body.daily_counts.archived,
                   savedCounts |-> r.body.daily_counts.later,
                   totalCounts |-> r.body.total_counts])

Day1 == [date |-> "2024-03-20", count |-> 5]

Day2 == [date |-> "2024-03-21", count |-> 3]

DailySeries == {<<>>, <<Day1>>, <<Day1, Day2>>, <<Day2, Day1>>}

StatsBodies ==
    [total_counts : {[archived_count |-> 100, later_count |-> 50],
                     [archived_count |-> 0, later_count |-> 0]},
     daily_counts : [archived : DailySeries, later : DailySeries]]

NoStats ==
    [total_counts |-> [archived_count |-> 0, later_count |-> 0],
     daily_counts |-> [archived |-> <<>>, later |-> <<>>]]

\* A function of the api is called, and the network will give it one of the
\* cases.
ApiInit ==
    /\ \/ /\ apiCall = "fetchArticles"
          /\ net \in NetCases(ArticleBodies, <<>>)
       \/ /\ apiCall = "fetchEpisodes"
          /\ net \in NetCases(EpisodeBodies, <<>>)
       \/ /\ apiCall = "fetchDailyCounts"
          /\ net \in NetCases(StatsBodies, NoStats)
    /\ settled = PendingPromise

FetchArticles ==
    /\ apiCall = "fetchArticles"
    /\ settled.state = "pending"
    /\ settled' = fetchArticles(net)
    /\ UNCHANGED <<apiCall, net, toastVars, dashVars, fastVars, engineVars, probeVars>>

FetchEpisodes ==
    /\ apiCall = "fetchEpisodes"
    /\ settled.state = "pending"
    /\ settled' = fetchEpisodes(net)
    /\ UNCHANGED <<apiCall, net, toastVars, dashVars, fastVars, engineVars, probeVars>>

FetchDailyCounts ==
    /\ apiCall = "fetchDailyCounts"
    /\ settled.state = "pending"
    /\ settled' = fetchDailyCounts(net)
    /\ UNCHANGED <<apiCall, net, toastVars, dashVars, fastVars, engineVars, probeVars>>

ApiNext == FetchArticles \/ FetchEpisodes \/ FetchDailyCounts

ApiStart == ApiInit /\ ToastIdle /\ DashIdle /\ FastIdle /\ EngineIdle /\ ProbeIdle

ApiSpec == ApiStart /\ [][ApiNext]_vars

\* ------------------------------------------------------------- properties

ScoredEntries ==
    {collector[i] : i \in DOMAIN collector}
        \cup {result.articles[i] : i \in DOMAIN result.articles}
        \cup {client.data.articles[i] : i \in DOMAIN client.data.articles}

\* C2: every component score is in [1,10] and every priority score in [10,100];
\* the priority score is 10 only when all six components are 1 and 100 only
\* when all six are 10.
C2_ScoreRanges ==
    \A e \in ScoredEntries :
        /\ \A m \in Metrics : e.component_scores[m] \in 10..100
        /\ e.priority_score \in 10000..100000
        /\ e.priority_score = 10000 <=> \A m \in Metrics : e.component_scores[m] = 10
        /\ e.priority_score = 100000 <=> \A m \in Metrics : e.component_scores[m] = 100

\* A ranked batch with an article at the bottom and one at the top of the range.
C2_Witness ==
    /\ outcome = "ranked"
    /\ \E e \in ScoredEntries : e.priority_score = 10000
    /\ \E e \in ScoredEntries : e.priority_score = 100000

\* The articles whose content resolution has run.
ResolvedArticles == {i \in Articles : pc[i] \in {"resolved", "scored", "failed"}}

FetchYieldsText(r) == r.fetch.status = "ok" /\ ~IsBlank(r.fetch.body)

\* C3: resolve returns the text and provenance of the first step that yields
\* non-empty text, in the order fetched, stored_content, summary, none; a fetch
\* that fails, times out, is not 2xx, does not parse or is empty falls through
\* and does not make resolve raise.
C3_FallbackOrder ==
    \A i \in ResolvedArticles :
        LET r == records[i]
            rc == resolved[i]
        IN "resolver" \notin r.faults =>
            /\ ~rc.raised
            /\ rc.provenance = "fetched" <=> FetchYieldsText(r)
            /\ rc.provenance = "stored_content" <=>
                   ~FetchYieldsText(r) /\ HasText(r.content)
            /\ rc.provenance = "summary" <=>
                   ~FetchYieldsText(r) /\ ~HasText(r.content) /\ HasText(r.summary)
            /\ rc.provenance = "none" <=>
                   ~FetchYieldsText(r) /\ ~HasText(r.content) /\ ~HasText(r.summary)
            /\ rc.provenance = "fetched" => rc.text = r.fetch.body
            /\ rc.provenance = "stored_content" => rc.text = r.content[1]
            /\ rc.provenance = "summary" => rc.text = r.summary[1]
            /\ rc.provenance = "none" <=> IsBlank(rc.text)

\* An unreachable source_url, an empty content and a summary: resolved to the
\* summary; and, in the same batch, a non-2xx fetch resolved to the stored content.
C3_Witness ==
    /\ \E i \in ResolvedArticles :
          /\ records[i].fetch.status = "network_error"
          /\ records[i].content = Some(<<>>)
          /\ resolved[i].provenance = "summary"
          /\ resolved[i].text = Summ
    /\ \E i \in ResolvedArticles :
          /\ records[i].fetch.status = "non2xx"
          /\ resolved[i].provenance = "stored_content"

\* The collector's entry of article i.
EntryOf(i) == CHOOSE e \in {collector[k] : k \in DOMAIN collector} : e.id = i

IsCollected(i) == \E k \in DOMAIN collector : collector[k].id = i

\* C4: when the resolved text is empty (provenance none), each of the six
\* extractors returns the minimum score 1, and the priority score of the
\* article is still computed.
C4_EmptyTextMinimum ==
    \A i \in Articles :
        (/\ pc[i] \in {"scored", "failed"}
         /\ resolved[i].provenance = "none"
         /\ ~(Metrics \subseteq records[i].faults)) =>
            /\ pc[i] = "scored"
            /\ IsCollected(i)
            /\ \A m \in Metrics : EntryOf(i).component_scores[m] = 10
            /\ EntryOf(i).priority_score = 10000

\* An article whose fetch gave only whitespace and that has no stored text,
\* scored and ranked.
C4_Witness ==
    /\ outcome = "ranked"
    /\ \E i \in Articles :
          /\ records[i].fetch.status = "ok"
          /\ records[i].faults = {}
          /\ resolved[i].provenance = "none"
          /\ pc[i] = "scored"
          /\ \E k \in DOMAIN result.articles : result.articles[k].id = i

\* The priority scores of all scored articles of the batch.
BatchScores == {collector[k].priority_score : k \in DOMAIN collector}

\* `payload` is a correct ranking of the batch: sorted by descending priority
\* score, the K best, with the count and the score range of the whole batch.
RankedCorrectly(payload) ==
    LET shown == payload.articles
        meta == payload.metadata
    IN /\ \A k, l \in DOMAIN shown :
             k < l => shown[k].priority_score >= shown[l].priority_score
       /\ meta.total_processed = Len(records)
       /\ meta.returned_count = Len(shown)
       /\ Len(shown) = Min(topK, Len(collector))
       /\ \A k \in DOMAIN shown : IsCollected(shown[k].id)
       /\ \A k \in DOMAIN shown : \A e \in {collector[j] : j \in DOMAIN collector} :
             (\A l \in DOMAIN shown : shown[l].id # e.id) =>
                 e.priority_score <= shown[k].priority_score
       /\ BatchScores # {} =>
             /\ meta.min_score \in BatchScores
             /\ meta.max_score \in BatchScores
             /\ \A v \in BatchScores : meta.min_score <= v /\ v <= meta.max_score

\* C5: the returned list is sorted by descending priority_score,
\* metadata.total_processed is the number N of articles of the batch, and
\* metadata.min_score / max_score are the minimum and maximum over all
\* articles of the batch, not only over the K returned ones; this is what the
\* engine emits and what fetchPrioritizedArticles hands to the dashboard.
C5_RankingCorrect ==
    /\ outcome = "ranked" => RankedCorrectly(result)
    /\ client.state = "data" => RankedCorrectly(client.data)

\* A batch of two scored articles with different scores, of which the top 1 is
\* returned to the dashboard: the minimum is the score of the article left out.
C5_Witness ==
    /\ client.state = "data"
    /\ topK = 1
    /\ Len(collector) = 2
    /\ Len(client.data.articles) = 1
    /\ client.data.metadata.total_processed = 2
    /\ client.data.metadata.min_score < client.data.articles[1].priority_score
    /\ client.data.metadata.max_score = client.data.articles[1].priority_score

FailedArticles == {i \in Articles : pc[i] = "failed"}

AllTasksDone == loaded /\ \A i \in Articles : pc[i] \in {"scored", "failed"}

\* C6: when exactly one article's resolver and every extractor throw, the
\* batch is not aborted: a ranked result is returned that excludes that
\* article, total_processed counts it and returned_count does not.
C6_PartialFailure ==
    Cardinality(FailedArticles) = 1 =>
        /\ outcome # "error"
        /\ failures = 1
        /\ AllTasksDone => (outcome = "ranked" \/ ENABLED Rank)
        /\ outcome = "ranked" =>
             /\ \A k \in DOMAIN result.articles :
                    result.articles[k].id \notin FailedArticles
             /\ result.metadata.total_processed = Len(records)
             /\ result.metadata.returned_count = Len(result.articles)
             /\ result.metadata.returned_count =
                    Min(topK, Len(records) - 1)

\* A batch of two articles, one of which failed wholly: ranked, one returned.
C6_Witness ==
    /\ outcome = "ranked"
    /\ Len(records) = 2
    /\ topK = 2
    /\ Cardinality(FailedArticles) = 1
    /\ \E i \in FailedArticles : records[i].faults = AllFaults
    /\ result.metadata.total_processed = 2
    /\ result.metadata.returned_count = 1
    /\ Len(result.articles) = 1

RawAge(r) ==
    IF r.published_date # <<>> THEN now - r.published_date[1] ELSE now - r.saved_at

\* Two records that differ in nothing but their dates.
SameButAge(r1, r2) ==
    /\ r1.fetch = r2.fetch
    /\ r1.content = r2.content
    /\ r1.summary = r2.summary
    /\ r1.title = r2.title
    /\ r1.faults = r2.faults

FreshnessOf(i) == EntryOf(i).component_scores["freshness"]

\* Of two scored articles identical except for their age, the older one's
\* freshness score is not above the younger one's.
FreshnessMonotone ==
    \A i, j \in Articles :
        (/\ IsCollected(i)
         /\ IsCollected(j)
         /\ SameButAge(records[i], records[j])
         /\ RawAge(records[i]) >= RawAge(records[j])) =>
            FreshnessOf(i) <= FreshnessOf(j)

ReferenceEntry(i) ==
    LET rc == IF "resolver" \in records[i].faults THEN NoContent
              ELSE resolve(records[i])
        scores == ComponentScoresOf(rc.text, records[i], now)
    IN [id |-> i, component_scores |-> scores, priority_score |-> aggregate(scores),
        provenance |-> rc.provenance]

RECURSIVE ReferenceEntries(_)
\* The entries of the articles 1..n that do not fail wholly, in input order.
ReferenceEntries(n) ==
    IF n = 0 THEN <<>>
    ELSE ReferenceEntries(n - 1)
            \o (IF AllFaults \subseteq records[n].faults THEN <<>>
                ELSE <<ReferenceEntry(n)>>)

\* C10: the RankingResult is independent of scheduling: whatever the
\* interleaving and the completion order of the per-article tasks, the ranked
\* list and the batch metadata are the ones determined by the input records,
\* the sample size and "now".
C10_ScheduleIndependent ==
    outcome = "ranked" =>
        result = rank(ReferenceEntries(Len(records)), Len(records), topK)

\* Two articles with equal priority scores whose tasks finished in the reverse
\* of the input order: ranked in input order.
C10_Witness ==
    /\ outcome = "ranked"
    /\ Len(collector) = 2
    /\ collector[1].id = 2
    /\ collector[2].id = 1
    /\ collector[1].priority_score = collector[2].priority_score
    /\ topK = 2
    /\ result.articles[1].id = 1
    /\ result.articles[2].id = 2

\* C11: every batch run terminates: with the per-fetch timeout and the
\* concurrency limit a source that never responds does not stall the batch,
\* which eventually is ranked (with partial results) or reports the error.
C11_BatchTerminates == <>(outcome \in {"ranked", "error"})

\* A batch of two articles fetched one at a time, the first from a source
\* that never responds: the second was fetched after the timeout, and the
\* batch is ranked.
C11_Witness ==
    /\ outcome = "ranked"
    /\ concurrency = 1
    /\ Len(records) = 2
    /\ records[1].fetch.status = "timeout"
    /\ resolved[2].provenance = "fetched"
    /\ collector # <<>>
    /\ collector[1].id = 1

\* C17: ToastNotification: whenever the toast becomes visible it later
\* becomes hidden again (timeouts run), and it never becomes visible for an
\* empty message.
C17_ToastHides ==
    /\ (visible => message # "")
    /\ [][(~visible /\ visible') => message' # ""]_vars
    /\ (visible ~> ~visible)

\* A toast was shown and its timeout has hidden it.
C17_Witness ==
    /\ message # ""
    /\ ~visible
    /\ timers = {}
    /\ clock >= Timeout(duration)

\* C18: ToastNotification: after a message change has made the toast
\* visible it stays visible until the duration has passed since that change,
\* also when the timeout of an earlier message is pending.
C18_VisibleForDuration == \A t \in timers : t > clock => visible

\* C12: once an archive request for an article has succeeded, the article is
\* never again in the list PrioritizedArticles shows, also when a refresh
\* and the archive overlap (the backend ranks no archived article).
C12_ArchivedNeverShown ==
    \A a \in ArticleIds :
        (a \in archived /\ archiveReq[a] = "idle") => a \notin Ids(articles)

\* C19: every completed archive, shortlist or load action of
\* PrioritizedArticles makes a toast with its message visible, also when the
\* message equals the one of the action before and showToast is already true.
C19_EveryActionToasts ==
    [][ActionCompletes => (visible' /\ message' = toastMessage')]_vars

\* C13: fetchArticles resolves with the parsed body as it is when the
\* response is ok, rejects with Error('HTTP error! status: <status>') when it
\* is not, rejects with fetch's own error when fetch rejects, and resolves
\* with nothing after a failed request.
C13_FetchArticlesContract ==
    (apiCall = "fetchArticles" /\ settled.state # "pending") =>
        /\ net.kind = "rejects" =>
              /\ settled.state = "rejected"
              /\ settled.value = net.error
        /\ (net.kind = "response" /\ net.status \notin 200..299) =>
              /\ settled.state = "rejected"
              /\ settled.value.name = "Error"
              /\ settled.value.message = <<"HTTP error! status: ", net.status>>
        /\ (net.kind = "response" /\ net.status \in 200..299 /\ net.parses) =>
              /\ settled.state = "resolved"
              /\ settled.value = net.body
        /\ settled.state = "resolved" =>
              /\ net.kind = "response"
              /\ net.status \in 200..299

\* fetchArticles has answered a 404 response whose body would parse.
C13_Witness ==
    /\ apiCall = "fetchArticles"
    /\ net.kind = "response"
    /\ net.status = 404
    /\ net.parses
    /\ net.body = <<Article1, Article2>>
    /\ settled.state = "rejected"

\* C14: fetchEpisodes maps the snake_case response to camelCase without
\* loss: as many podcasts and episodes, in the same order, each field copied
\* as it is to its camelCase counterpart.
C14_EpisodesMapped ==
    (apiCall = "fetchEpisodes" /\ settled.state = "resolved") =>
        LET in == net.body
            out == settled.value
        IN /\ Len(out) = Len(in)
           /\ \A i \in DOMAIN in :
                 /\ out[i].podcastTitle = in[i].podcast_title
                 /\ out[i].artworkUrl = in[i].artwork_url
                 /\ Len(out[i].episodes) = Len(in[i].episodes)
                 /\ \A j \in DOMAIN in[i].episodes :
                       LET e == in[i].episodes[j]
                           c == out[i].episodes[j]
                       IN /\ c.episodeTitle = e.episode_title
                          /\ c.audioUrl = e.audio_url
                          /\ c.overcastUrl = e.overcast_url
                          /\ c.overcastId = e.overcast_id
                          /\ c.publishedDate = e.published_date
                          /\ c.playProgress = e.play_progress
                          /\ c.lastPlayedAt = e.last_played_at
                          /\ c.summary = e.summary

\* fetchEpisodes has mapped two podcasts, the first with two episodes.
C14_Witness ==
    /\ apiCall = "fetchEpisodes"
    /\ settled.state = "resolved"
    /\ Len(settled.value) = 2
    /\ Len(settled.value[1].episodes) = 2
    /\ settled.value[2].episodes = <<>>

\* C15: fetchDailyCounts returns readCounts = daily_counts.archived,
\* savedCounts = daily_counts.later and totalCounts = total_counts of the
\* response, no entry added, dropped or moved, and rejects when the response
\* is not ok.
C15_DailyCounts ==
    (apiCall = "fetchDailyCounts" /\ settled.state # "pending") =>
        /\ settled.state = "resolved" =>
              /\ net.kind = "response"
              /\ net.status \in 200..299
              /\ settled.value.readCounts = net.body.daily_counts.archived
              /\ settled.value.savedCounts = net.body.daily_counts.later
              /\ settled.value.totalCounts = net.body.total_counts
              /\ DOMAIN settled.value = {"readCounts", "savedCounts", "totalCounts"}
        /\ (net.kind = "response" /\ net.status \notin 200..299) =>
              settled.state = "rejected"

\* fetchDailyCounts has returned two different daily series.
C15_Witness ==
    /\ apiCall = "fetchDailyCounts"
    /\ settled.state = "resolved"
    /\ settled.value.readCounts = <<Day1, Day2>>
    /\ settled.value.savedCounts = <<Day2, Day1>>
    /\ settled.value.totalCounts.archived_count = 100

\* A load request of ArchiveFastTrack is under way.
LoadInFlight == \E k \in LoadSlots : loads[k].state \notin {"idle", "done"}

\* C16: ArchiveFastTrack: whenever no load is under way and the last load
\* succeeded, the list shown and metadata.criteria.min_age_days belong to the
\* selected minAgeDays, whatever the clicks and the order of the responses.
C16_ListMatchesFilter ==
    (~LoadInFlight /\ error = Null /\ "criteria" \in DOMAIN metadata) =>
        /\ metadata.criteria.min_age_days = minAgeDays
        /\ \A i \in DOMAIN articles : articles[i].age >= minAgeDays

Issued == {bulk.issued[i] : i \in DOMAIN bulk.issued}

\* Of a run of handleArchiveAll: no article is requested twice, only listed
\* articles are requested, every request that was answered is counted once,
\* and at the end every listed article was requested or is in
\* archivedArticleIds.
BulkAccounted ==
    /\ \A i, j \in DOMAIN bulk.issued : bulk.issued[i] = bulk.issued[j] => i = j
    /\ Issued \subseteq Ids(bulk.list)
    /\ bulk.successCount + bulk.failCount
          = Len(bulk.issued) - (IF bulk.pc = "awaiting" THEN 1 ELSE 0)
    /\ bulk.pc \in {"idle", "confirming"} =>
          Ids(bulk.list) \subseteq Issued \cup archivedArticleIds

\* A request is issued only for an article that is not in archivedArticleIds
\* when the loop comes to it.
IssuedWhenUnarchived ==
    (bulk'.issued # bulk.issued /\ bulk'.issued # <<>>) =>
        bulk'.issued[Len(bulk'.issued)] \notin archivedArticleIds'

\* The run ends with loading off and a toast that is an error toast exactly
\* when a request failed.
EndsWithToast ==
    ((BulkResponse \/ ConfirmAccepted) /\ bulk'.pc = "idle") =>
        /\ ~loading'
        /\ showToast'
        /\ toastType' = (IF bulk'.failCount > 0 THEN "error" ELSE "success")

\* Declining the dialog changes nothing and sends nothing.
DeclineChangesNothing ==
    ConfirmDeclined =>
        /\ UNCHANGED <<dashVars, toastVars, minAgeDays, archivedArticleIds, loads>>
        /\ bulk'.issued = bulk.issued
        /\ bulk'.req = bulk.req

\* C20: handleArchiveAll, once confirmed, sends exactly one archive request
\* for every listed article that is not in archivedArticleIds when the loop
\* comes to it, goes on after a failure, ends with successCount + failCount
\* equal to the number of requests sent and with an error toast exactly when
\* failCount > 0; when the dialog is declined nothing changes and nothing is
\* sent.
C20_ArchiveAll ==
    /\ []BulkAccounted
    /\ [][IssuedWhenUnarchived /\ EndsWithToast /\ DeclineChangesNothing]_vars

\* A run over two articles has ended: the first request failed, the second
\* succeeded.
C20_Witness ==
    /\ bulk.pc = "idle"
    /\ bulk.issued = <<1, 2>>
    /\ bulk.failCount = 1
    /\ bulk.successCount = 1
    /\ archivedArticleIds = {2}
    /\ toastType = "error"
    /\ toastMessage = "Archived 1 articles, failed to archive 1 articles"

\* The article the loop of handleArchiveAll is waiting for.
BulkArticle == bulk.list[bulk.index].id

\* The ids with a successful answer that no handler has taken yet.
AnsweredOk ==
    {a \in ArticleIds : archiveReq[a] = "ok"}
        \cup (IF bulk.pc = "awaiting" /\ bulk.req = "ok" THEN {BulkArticle} ELSE {})

\* archivedArticleIds holds only ids the backend archived, and every id whose
\* successful answer a handler has taken.
ArchivedIdsExact ==
    /\ archivedArticleIds \subseteq archived
    /\ archived \ AnsweredOk \subseteq archivedArticleIds

\* No id leaves archivedArticleIds, and an id enters it only in the step that
\* takes a successful answer for it.
ArchivedIdsGrowOnSuccess ==
    /\ archivedArticleIds \subseteq archivedArticleIds'
    /\ \A a \in archivedArticleIds' \ archivedArticleIds : a \in AnsweredOk

\* C21: in ArchiveFastTrack archivedArticleIds is at every state exactly the
\* set of ids for which an archive request has completed successfully since
\* the component was mounted: a failed request adds none, and a reload, a
\* min-age change or a later failure removes none.
C21_ArchivedIdsExact ==
    /\ []ArchivedIdsExact
    /\ [][ArchivedIdsGrowOnSuccess]_vars

\* Article 2 was archived, then an age filter was chosen and its load ended,
\* then a request for article 1 failed.
C21_Witness ==
    /\ archivedArticleIds = {2}
    /\ archived = {2}
    /\ minAgeDays = 0
    /\ loads[2].state = "done"
    /\ Ids(articles) = {1}
    /\ archiveReq[1] = "idle"
    /\ toastMessage = "HTTP error! status: 500"

\* C22: in ArchiveFastTrack no article is sent a second archive request
\* while it is listed: whatever the interleaving of Archive clicks, Archive
\* All runs and pending answers, an id has at most one request that has not
\* failed.
C22_OneRequestPerArticle ==
    \A a \in ArticleIds :
        ~ /\ archiveReq[a] \in {"sent", "ok"}
          /\ bulk.pc = "awaiting"
          /\ BulkArticle = a
          /\ bulk.req \in {"sent", "ok"}

\* C23: in ArchiveFastTrack loading is true in every state in which a load
\* request or a run of Archive All is still under way.
C23_LoadingWhileBusy == (LoadInFlight \/ bulk.pc = "awaiting") => loading

\* A load is started only when none is under way, and loading tells whether
\* one is.
OneLoadAtATime ==
    /\ loading <=> loadReq.state # "idle"
    /\ loadReq.state \in {"idle", "sent", "ok"} \cup Failures

\* A load starts from no load under way; when a load ends error is set
\* exactly if it failed; no other step writes error.
ErrorOfLastLoad ==
    /\ ClickReload => loadReq.state = "idle"
    /\ LoadDone => (error' # Null <=> loadReq.state # "ok")
    /\ error' # error => (LoadDone \/ ClickReload)

\* C24: in PrioritizedArticles at most one load request is under way at any
\* time, loading is true exactly while it is, and when none is under way
\* error is set if and only if the most recent load failed.
C24_SingleLoad ==
    /\ []OneLoadAtATime
    /\ [][ErrorOfLastLoad]_vars

\* A load succeeded, an article was archived, and the load after that failed.
C24_Witness ==
    /\ ~loading
    /\ loadReq.state = "idle"
    /\ error \in Failures
    /\ Len(articles) = 1
    /\ archived # {}
    /\ toastMessage = "Failed to load prioritized articles"

====
